---- MODULE Spec2Model ----
(***************************************************************************)
(* Cart, order placement, cancellation and stock bookkeeping of the shop   *)
(* backend (cart controller, order controller, product controller, auth    *)
(* middleware).  Every request handler is a process running in a slot; one *)
(* action is one database round trip (one `await`) together with the       *)
(* synchronous code that follows it up to the next await or the response.  *)
(* A prisma.$transaction block is one atomic step: it commits as a whole   *)
(* or (TxFail) not at all.                                                 *)
(***************************************************************************)
EXTENDS Integers, Sequences, FiniteSets, TLC

\* ------------------------------------------------------------------ bounds
InitStock == 1
MaxStock == 2
MaxQty == 1
MaxItems == 2
MaxOrders == 2
MaxRestores == 2

\* ------------------------------------------------------------ model values
Users == {1, 2}
Admins == {1}
Products == {1}
NoProduct == 0
ProductInputs == Products \cup {NoProduct}
Slots == {1, 2}
SeqSlots == {1}
NULL == "null"
Designs == {NULL, "art"}
QtyInputs == (0 - 1)..MaxQty
ItemIds == 1..MaxItems
OrderIds == 1..MaxOrders

validStatusesAndBogus ==
  {"PENDING", "CONFIRMED", "PROCESSING", "SHIPPED", "DELIVERED", "CANCELLED", "REFUNDED",
   "BOGUS"}

validStatuses ==
  {"PENDING", "CONFIRMED", "PROCESSING", "SHIPPED", "DELIVERED", "CANCELLED", "REFUNDED"}

\* status.toUpperCase() on the request bodies the model sends
toUpperCase(st) ==
  CASE st = "pending" -> "PENDING"
    [] st = "shipped" -> "SHIPPED"
    [] st = "bogus" -> "BOGUS"
    [] OTHER -> st

StatusInputs == {"pending", "CONFIRMED", "SHIPPED", "bogus", NULL}

RoleAlwaysAdmin(u) == "ADMIN"

\* req.user.role as issued in the token
Role(u) == IF u \in Admins THEN "ADMIN" ELSE "USER"

\* unit prices in thousandths of the currency unit
InitPrice == [p \in Products |-> 1005 + p]

TruncCents(m) == m \div 10

\* Math.round(total * 100) / 100, on thousandths, giving hundredths
RoundCents(m) == (m + 5) \div 10

VARIABLES
  stock,       \* product.stock
  isActive,    \* product.isActive
  price,       \* product.price
  catalog,     \* the ids that have a Product row
  carts,       \* the users that own a Cart row (Cart.userId is unique)
  cartItems,   \* the CartItem rows
  nextItemId,  \* next CartItem id
  orders,      \* the Order rows with their OrderItem rows, by id
  restored,    \* history: how many times cancelOrder credited each order's stock
  req          \* the request running in each slot

db == <<stock, isActive, price, catalog, carts, cartItems, nextItemId, orders, restored>>
vars == <<stock, isActive, price, catalog, carts, cartItems, nextItemId, orders, restored, req>>

Idle == [op |-> "none", pc |-> "idle"]

Finish(r, status, err) == [r EXCEPT !.pc = "done"] @@ [status |-> status, err |-> err]

RECURSIVE SeqById(_)
SeqById(S) ==
  IF S = {} THEN <<>>
  ELSE LET m == CHOOSE x \in S : \A y \in S : x.id <= y.id
       IN <<m>> \o SeqById(S \ {m})

RECURSIVE SumSeq(_)
SumSeq(q) == IF q = <<>> THEN 0 ELSE Head(q) + SumSeq(Tail(q))

ItemsOf(u) == {i \in cartItems : i.cartId = u}

\* cart.items with `include: { product: true }`
CartLines(u) ==
  LET its == SeqById(ItemsOf(u))
  IN [k \in 1..Len(its) |->
        [productId |-> its[k].productId, quantity |-> its[k].quantity,
         customDesign |-> its[k].customDesign, price |-> price[its[k].productId],
         stock |-> stock[its[k].productId], active |-> isActive[its[k].productId]]]

\* total quantity of product p over a sequence of lines
QtyOf(lines, p) ==
  SumSeq([k \in 1..Len(lines) |-> IF lines[k].productId = p THEN lines[k].quantity ELSE 0])

LinesTotal(lines) ==
  SumSeq([k \in 1..Len(lines) |-> lines[k].price * lines[k].quantity])

OrderItemsNoDesign(lines) ==
  [k \in 1..Len(lines) |->
     [productId |-> lines[k].productId, quantity |-> lines[k].quantity,
      price |-> lines[k].price, customDesign |-> NULL]]

\* cart.items.map(...) of the order's nested create
OrderItems(lines) ==
  [k \in 1..Len(lines) |->
     [productId |-> lines[k].productId, quantity |-> lines[k].quantity,
      price |-> lines[k].price, customDesign |-> lines[k].customDesign]]

Init ==
  /\ stock = [p \in Products |-> InitStock]
  /\ isActive = [p \in Products |-> TRUE]
  /\ price = InitPrice
  /\ catalog = Products
  /\ carts = {}
  /\ cartItems = {}
  /\ nextItemId = 1
  /\ orders = <<>>
  /\ restored = <<>>
  /\ req = [s \in Slots |-> Idle]

\* ------------------------------------------------------------- placeOrder
StockShortNever(line) == FALSE

\* item.product.stock < item.quantity
StockShort(line) == line.stock < line.quantity

KeptCart(u) == cartItems

\* tx.cartItem.deleteMany({ where: { cartId: cart.id } })
ClearedCart(u) == cartItems \ ItemsOf(u)

CartMissing(u, lines) == u \notin carts

\* !cart || cart.items.length === 0
CartEmpty(u, lines) == u \notin carts \/ lines = <<>>

UnavailableNever(line) == FALSE

\* !item.product.isActive
Unavailable(line) == ~line.active

PlaceOrderStart(s, u, addr) ==
  /\ req[s].pc = "idle"
  /\ LET lines == CartLines(u)
         r == [op |-> "placeOrder", pc |-> "tx", user |-> u, addr |-> addr, snap |-> lines]
         bad == {k \in 1..Len(lines) :
                   Unavailable(lines[k]) \/ StockShort(lines[k])}
     IN \/ /\ ~addr
           /\ req' = [req EXCEPT ![s] = Finish(r, 400, "InvalidArgument")]
        \/ /\ addr
           /\ CartEmpty(u, lines)
           /\ req' = [req EXCEPT ![s] = Finish(r, 400, "EmptyCart")]
        \/ /\ addr
           /\ ~CartEmpty(u, lines)
           /\ \E k \in bad :
                req' = [req EXCEPT ![s] =
                          Finish(r, 400, IF Unavailable(lines[k]) THEN "ProductUnavailable"
                                         ELSE "InsufficientStock")]
        \/ /\ addr
           /\ ~CartEmpty(u, lines)
           /\ bad = {}
           /\ req' = [req EXCEPT ![s] = r]
  /\ UNCHANGED db

\* tx.product.update by id: P2025 (404) when a line's product row is gone,
\* which rolls the whole transaction back
LinesInCatalog(lines) == \A k \in 1..Len(lines) : lines[k].productId \in catalog

PlaceOrderCommit(s) ==
  /\ req[s].pc = "tx"
  /\ req[s].op = "placeOrder"
  /\ Len(orders) < MaxOrders
  /\ LET r == req[s]
         newStock == [p \in Products |-> stock[p] - QtyOf(r.snap, p)]
         newOrder == [userId |-> r.user, status |-> "PENDING",
                      total |-> RoundCents(LinesTotal(r.snap)),
                      items |-> OrderItems(r.snap)]
     IN \/ /\ LinesInCatalog(r.snap)
           /\ \A p \in Products : newStock[p] <= MaxStock
           /\ orders' = Append(orders, newOrder)
           /\ restored' = Append(restored, 0)
           /\ stock' = newStock
           /\ cartItems' = ClearedCart(r.user)
           /\ req' = [req EXCEPT ![s] = Finish(r, 201, "none")]
        \/ /\ ~LinesInCatalog(r.snap)
           /\ req' = [req EXCEPT ![s] = Finish(r, 404, "NotFound")]
           /\ UNCHANGED <<orders, restored, stock, cartItems>>
  /\ UNCHANGED <<isActive, price, catalog, carts, nextItemId>>

\* -------------------------------------------------------------- addToCart
MissingId == 0 - 1

ProductExists(p) == p \in catalog

\* !(!product || !product.isActive)
ProductFound(p) == p \in catalog /\ isActive[p]

MatchingAnyDesign(u, p, d) == {i \in ItemsOf(u) : i.productId = p}

\* !customDesign ? cartItem.findFirst({ cartId, productId, customDesign: null }) : null
MatchingLines(u, p, d) ==
  IF d = NULL
  THEN {i \in ItemsOf(u) : i.productId = p /\ i.customDesign = NULL}
  ELSE {}

ExceedsStockByTwo(newQty, productStock) == newQty > productStock + 1

\* newQty > product.stock
ExceedsStock(newQty, productStock) == newQty > productStock

AddToCartStart(s, u, p, q, d) ==
  /\ req[s].pc = "idle"
  /\ LET r == [op |-> "addToCart", pc |-> "findCart", user |-> u, productId |-> p,
               quantity |-> q, customDesign |-> d,
               productStock |-> IF p \in Products THEN stock[p] ELSE 0,
               existing |-> 0, newQty |-> 0]
     IN \/ /\ p = MissingId
           /\ req' = [req EXCEPT ![s] = Finish(r, 400, "InvalidArgument")]
        \/ /\ p # MissingId
           /\ ~ProductFound(p)
           /\ req' = [req EXCEPT ![s] = Finish(r, 404, "NotFound")]
        \/ /\ p # MissingId /\ ProductFound(p)
           /\ stock[p] < q
           /\ req' = [req EXCEPT ![s] = Finish(r, 400, "InsufficientStock")]
        \/ /\ p # MissingId /\ ProductFound(p)
           /\ ~(stock[p] < q)
           /\ req' = [req EXCEPT ![s] = r]
  /\ UNCHANGED db

AddToCartFindCart(s) ==
  /\ req[s].pc = "findCart"
  /\ req[s].op = "addToCart"
  /\ req' = [req EXCEPT ![s].pc = IF req[s].user \in carts THEN "findItem" ELSE "createCart"]
  /\ UNCHANGED db

\* prisma.cart.create: Cart.userId is unique, a second row is refused (P2002)
AddToCartCreateCart(s) ==
  /\ req[s].pc = "createCart"
  /\ req[s].op = "addToCart"
  /\ \/ /\ req[s].user \in carts
        /\ req' = [req EXCEPT ![s] = Finish(req[s], 400, "Duplicate")]
        /\ UNCHANGED carts
     \/ /\ req[s].user \notin carts
        /\ carts' = carts \cup {req[s].user}
        /\ req' = [req EXCEPT ![s].pc = "findItem"]
  /\ UNCHANGED <<stock, isActive, price, catalog, cartItems, nextItemId, orders, restored>>

AddToCartFindItem(s) ==
  /\ req[s].pc = "findItem"
  /\ req[s].op = "addToCart"
  /\ LET r == req[s]
         matches == MatchingLines(r.user, r.productId, r.customDesign)
     IN \/ /\ matches = {}
           /\ req' = [req EXCEPT ![s].pc = "create"]
        \/ \E i \in matches :
             LET newQty == i.quantity + r.quantity
             IN IF ExceedsStock(newQty, r.productStock)
                THEN req' = [req EXCEPT ![s] = Finish(r, 400, "InsufficientStock")]
                ELSE req' = [req EXCEPT ![s] =
                               [r EXCEPT !.pc = "update", !.existing = i.id,
                                         !.newQty = newQty]]
  /\ UNCHANGED db

\* prisma.cartItem.update by id: P2025 (404) when the row is gone
AddToCartUpdate(s) ==
  /\ req[s].pc = "update"
  /\ req[s].op = "addToCart"
  /\ LET r == req[s]
     IN \/ /\ \E i \in cartItems : i.id = r.existing
           /\ r.newQty >= 0 - MaxQty
           /\ cartItems' = {IF i.id = r.existing THEN [i EXCEPT !.quantity = r.newQty] ELSE i :
                              i \in cartItems}
           /\ req' = [req EXCEPT ![s] = Finish(r, 201, "none")]
        \/ /\ ~\E i \in cartItems : i.id = r.existing
           /\ UNCHANGED cartItems
           /\ req' = [req EXCEPT ![s] = Finish(r, 404, "NotFound")]
  /\ UNCHANGED <<stock, isActive, price, catalog, carts, nextItemId, orders, restored>>

\* a create that also reserves the quantity out of the stock
AddToCartCreateReserving(s) ==
  /\ req[s].pc = "create"
  /\ req[s].op = "addToCart"
  /\ nextItemId <= MaxItems
  /\ LET r == req[s]
     IN /\ cartItems' = cartItems \cup
             {[id |-> nextItemId, cartId |-> r.user, productId |-> r.productId,
               quantity |-> r.quantity, customDesign |-> r.customDesign]}
        /\ nextItemId' = nextItemId + 1
        /\ stock' = [stock EXCEPT ![r.productId] = @ - r.quantity]
        /\ req' = [req EXCEPT ![s] = Finish(r, 201, "none")]
  /\ UNCHANGED <<isActive, price, catalog, carts, orders, restored>>

AddToCartCreate(s) ==
  /\ req[s].pc = "create"
  /\ req[s].op = "addToCart"
  /\ nextItemId <= MaxItems
  /\ LET r == req[s]
     IN /\ cartItems' = cartItems \cup
             {[id |-> nextItemId, cartId |-> r.user, productId |-> r.productId,
               quantity |-> r.quantity, customDesign |-> r.customDesign]}
        /\ nextItemId' = nextItemId + 1
        /\ req' = [req EXCEPT ![s] = Finish(r, 201, "none")]
  /\ UNCHANGED <<stock, isActive, price, catalog, carts, orders, restored>>

\* --------------------------------------------------------- updateCartItem
InvalidQuantityNegative(q) == q < 0

\* !quantity || quantity < 1
InvalidQuantity(q) == q = 0 \/ q < 1

UpdateCartItemStart(s, u, id, q) ==
  /\ req[s].pc = "idle"
  /\ LET r == [op |-> "updateCartItem", pc |-> "findItem", user |-> u, itemId |-> id,
               quantity |-> q]
     IN \/ /\ InvalidQuantity(q)
           /\ req' = [req EXCEPT ![s] = Finish(r, 400, "InvalidArgument")]
        \/ /\ ~InvalidQuantity(q)
           /\ u \notin carts
           /\ req' = [req EXCEPT ![s] = Finish(r, 404, "NotFound")]
        \/ /\ ~InvalidQuantity(q)
           /\ u \in carts
           /\ req' = [req EXCEPT ![s] = r]
  /\ UNCHANGED db

FindFirstById(u, id) == {i \in cartItems : i.id = id}

\* prisma.cartItem.findFirst({ where: { id: req.params.itemId, cartId: cart.id } })
FindFirstInCart(u, id) == {i \in ItemsOf(u) : i.id = id}

UpdateCartItemFindItem(s) ==
  /\ req[s].pc = "findItem"
  /\ req[s].op = "updateCartItem"
  /\ LET r == req[s]
         found == FindFirstInCart(r.user, r.itemId)
     IN \/ /\ found = {}
           /\ req' = [req EXCEPT ![s] = Finish(r, 404, "NotFound")]
        \/ \E i \in found :
             IF r.quantity > stock[i.productId]
             THEN req' = [req EXCEPT ![s] = Finish(r, 400, "InsufficientStock")]
             ELSE req' = [req EXCEPT ![s].pc = "update"]
  /\ UNCHANGED db

UpdateCartItemUpdate(s) ==
  /\ req[s].pc = "update"
  /\ req[s].op = "updateCartItem"
  /\ LET r == req[s]
     IN \/ /\ \E i \in cartItems : i.id = r.itemId
           /\ cartItems' = {IF i.id = r.itemId THEN [i EXCEPT !.quantity = r.quantity] ELSE i :
                              i \in cartItems}
           /\ req' = [req EXCEPT ![s] = Finish(r, 200, "none")]
        \/ /\ ~\E i \in cartItems : i.id = r.itemId
           /\ UNCHANGED cartItems
           /\ req' = [req EXCEPT ![s] = Finish(r, 404, "NotFound")]
  /\ UNCHANGED <<stock, isActive, price, catalog, carts, nextItemId, orders, restored>>

\* ------------------------------------------------------------ cancelOrder
CancellableUnlessShipped(st) == st # "SHIPPED"

CancellableAlways(st) == TRUE

\* ['PENDING', 'CONFIRMED'].includes(order.status)
Cancellable(st) == st \in {"PENDING", "CONFIRMED"}

RestoredStockNone(lines) == stock

\* stock: { increment: item.quantity } for each order item
RestoredStock(lines) == [p \in Products |-> stock[p] + QtyOf(lines, p)]

NotAuthorizedNever(u, ord) == FALSE

\* order.userId !== req.user.userId && req.user.role !== 'ADMIN'
NotAuthorized(u, ord) == ord.userId # u /\ Role(u) # "ADMIN"

CancelOrderStart(s, u, o) ==
  /\ req[s].pc = "idle"
  /\ LET r == [op |-> "cancelOrder", pc |-> "tx", user |-> u, orderId |-> o,
               snap |-> IF o <= Len(orders) THEN orders[o].items ELSE <<>>]
     IN \/ /\ o > Len(orders)
           /\ req' = [req EXCEPT ![s] = Finish(r, 404, "NotFound")]
        \/ /\ o <= Len(orders)
           /\ NotAuthorized(u, orders[o])
           /\ req' = [req EXCEPT ![s] = Finish(r, 403, "Forbidden")]
        \/ /\ o <= Len(orders)
           /\ ~NotAuthorized(u, orders[o])
           /\ ~Cancellable(orders[o].status)
           /\ req' = [req EXCEPT ![s] = Finish(r, 400, "InvalidState")]
        \/ /\ o <= Len(orders)
           /\ ~NotAuthorized(u, orders[o])
           /\ Cancellable(orders[o].status)
           /\ req' = [req EXCEPT ![s] = r]
  /\ UNCHANGED db

CancelOrderCommit(s) ==
  /\ req[s].pc = "tx"
  /\ req[s].op = "cancelOrder"
  /\ LET r == req[s]
         newStock == RestoredStock(r.snap)
     IN \/ /\ LinesInCatalog(r.snap)
           /\ \A p \in Products : newStock[p] <= MaxStock
           /\ restored[r.orderId] < MaxRestores
           /\ stock' = newStock
           /\ orders' = [orders EXCEPT ![r.orderId].status = "CANCELLED"]
           /\ restored' = [restored EXCEPT ![r.orderId] = @ + 1]
           /\ req' = [req EXCEPT ![s] = Finish(r, 200, "none")]
        \/ /\ ~LinesInCatalog(r.snap)
           /\ req' = [req EXCEPT ![s] = Finish(r, 404, "NotFound")]
           /\ UNCHANGED <<stock, orders, restored>>
  /\ UNCHANGED <<isActive, price, catalog, carts, cartItems, nextItemId>>

\* ------------------------------------------------------ updateOrderStatus
\* the route runs authorize('ADMIN') before the handler
UpdateOrderStatusStart(s, u, o, st) ==
  /\ req[s].pc = "idle"
  /\ LET r == [op |-> "updateOrderStatus", pc |-> "update", user |-> u, orderId |-> o,
               newStatus |-> st]
     IN \/ /\ Role(u) # "ADMIN"
           /\ req' = [req EXCEPT ![s] = Finish(r, 403, "Forbidden")]
        \/ /\ Role(u) = "ADMIN"
           /\ st # NULL /\ toUpperCase(st) \notin validStatuses
           /\ req' = [req EXCEPT ![s] = Finish(r, 400, "InvalidArgument")]
        \/ /\ Role(u) = "ADMIN"
           /\ ~(st # NULL /\ toUpperCase(st) \notin validStatuses)
           /\ o > Len(orders)
           /\ req' = [req EXCEPT ![s] = Finish(r, 404, "NotFound")]
        \/ /\ Role(u) = "ADMIN"
           /\ ~(st # NULL /\ toUpperCase(st) \notin validStatuses)
           /\ o <= Len(orders)
           /\ req' = [req EXCEPT ![s] = r]
  /\ UNCHANGED db

UpdateOrderStatusUpdate(s) ==
  /\ req[s].pc = "update"
  /\ req[s].op = "updateOrderStatus"
  /\ LET r == req[s]
     IN /\ orders' = IF r.newStatus # NULL
                     THEN [orders EXCEPT ![r.orderId].status = toUpperCase(r.newStatus)]
                     ELSE orders
        /\ req' = [req EXCEPT ![s] = Finish(r, 200, "none")]
  /\ UNCHANGED <<stock, isActive, price, catalog, carts, cartItems, nextItemId, restored>>

\* ---------------------------------------------------------- deleteProduct
\* the route runs authorize('ADMIN') before the handler
DeleteProductStart(s, u, p) ==
  /\ req[s].pc = "idle"
  /\ LET r == [op |-> "deleteProduct", pc |-> "update", user |-> u, productId |-> p]
     IN \/ /\ Role(u) # "ADMIN"
           /\ req' = [req EXCEPT ![s] = Finish(r, 403, "Forbidden")]
        \/ /\ Role(u) = "ADMIN"
           /\ p \notin catalog
           /\ req' = [req EXCEPT ![s] = Finish(r, 404, "NotFound")]
        \/ /\ Role(u) = "ADMIN"
           /\ p \in catalog
           /\ req' = [req EXCEPT ![s] = r]
  /\ UNCHANGED db

DeleteProductUpdate(s) ==
  /\ req[s].pc = "update"
  /\ req[s].op = "deleteProduct"
  /\ \/ /\ req[s].productId \in catalog
        /\ isActive' = [isActive EXCEPT ![req[s].productId] = FALSE]
        /\ req' = [req EXCEPT ![s] = Finish(req[s], 200, "none")]
     \/ /\ req[s].productId \notin catalog
        /\ UNCHANGED isActive
        /\ req' = [req EXCEPT ![s] = Finish(req[s], 404, "NotFound")]
  /\ UNCHANGED <<stock, price, catalog, carts, cartItems, nextItemId, orders, restored>>

\* ---------------------------------------------------------------- getCart
ItemCountLines(lines) == Len(lines)

\* cart.items.reduce((sum, item) => sum + item.quantity, 0)
ItemCount(lines) == SumSeq([k \in 1..Len(lines) |-> lines[k].quantity])

\* Math.round(subtotal * 100) / 100 of the sum of product.price * quantity
Subtotal(lines) == RoundCents(LinesTotal(lines))

\* the cart of the response: subtotal and itemCount beside the lines read
CartView(lines) == [subtotal |-> Subtotal(lines), itemCount |-> ItemCount(lines)]

GetCartStart(s, u) ==
  /\ req[s].pc = "idle"
  /\ LET r == [op |-> "getCart", pc |-> "createCart", user |-> u]
     IN IF u \in carts
        THEN req' = [req EXCEPT ![s] = Finish(r, 200, "none") @@ CartView(CartLines(u))]
        ELSE req' = [req EXCEPT ![s] = r]
  /\ UNCHANGED db

\* prisma.cart.create: Cart.userId is unique, a second row is refused (P2002)
GetCartCreateCart(s) ==
  /\ req[s].pc = "createCart"
  /\ req[s].op = "getCart"
  /\ \/ /\ req[s].user \in carts
        /\ req' = [req EXCEPT ![s] = Finish(req[s], 400, "Duplicate")]
        /\ UNCHANGED carts
     \/ /\ req[s].user \notin carts
        /\ carts' = carts \cup {req[s].user}
        /\ req' = [req EXCEPT ![s] = Finish(req[s], 200, "none") @@ CartView(<<>>)]
  /\ UNCHANGED <<stock, isActive, price, catalog, cartItems, nextItemId, orders, restored>>

\* --------------------------------------------------------- removeFromCart
WithoutCartOfItem(id) ==
  {i \in cartItems : \A j \in cartItems : j.id = id => i.cartId # j.cartId}

\* prisma.cartItem.delete({ where: { id } })
WithoutItem(id) == {i \in cartItems : i.id # id}

RemoveFromCartStart(s, u, id) ==
  /\ req[s].pc = "idle"
  /\ LET r == [op |-> "removeFromCart", pc |-> "findItem", user |-> u, itemId |-> id]
     IN IF u \notin carts
        THEN req' = [req EXCEPT ![s] = Finish(r, 404, "NotFound")]
        ELSE req' = [req EXCEPT ![s] = r]
  /\ UNCHANGED db

RemoveFromCartFindItem(s) ==
  /\ req[s].pc = "findItem"
  /\ req[s].op = "removeFromCart"
  /\ LET r == req[s]
         found == FindFirstInCart(r.user, r.itemId)
     IN IF found = {}
        THEN req' = [req EXCEPT ![s] = Finish(r, 404, "NotFound")]
        ELSE req' = [req EXCEPT ![s].pc = "delete"]
  /\ UNCHANGED db

\* P2025 (404) when the row is gone
RemoveFromCartDelete(s) ==
  /\ req[s].pc = "delete"
  /\ req[s].op = "removeFromCart"
  /\ LET r == req[s]
     IN \/ /\ \E i \in cartItems : i.id = r.itemId
           /\ cartItems' = WithoutItem(r.itemId)
           /\ req' = [req EXCEPT ![s] = Finish(r, 200, "none")]
        \/ /\ ~\E i \in cartItems : i.id = r.itemId
           /\ UNCHANGED cartItems
           /\ req' = [req EXCEPT ![s] = Finish(r, 404, "NotFound")]
  /\ UNCHANGED <<stock, isActive, price, catalog, carts, nextItemId, orders, restored>>

\* -------------------------------------------------------------- clearCart
CartNotEmptied(u) == cartItems

\* prisma.cartItem.deleteMany({ where: { cartId: cart.id } })
CartEmptied(u) == {i \in cartItems : i.cartId # u}

ClearCartStart(s, u) ==
  /\ req[s].pc = "idle"
  /\ LET r == [op |-> "clearCart", pc |-> "deleteMany", user |-> u]
     IN IF u \notin carts
        THEN req' = [req EXCEPT ![s] = Finish(r, 404, "NotFound")]
        ELSE req' = [req EXCEPT ![s] = r]
  /\ UNCHANGED db

ClearCartDeleteMany(s) ==
  /\ req[s].pc = "deleteMany"
  /\ req[s].op = "clearCart"
  /\ cartItems' = CartEmptied(req[s].user)
  /\ req' = [req EXCEPT ![s] = Finish(req[s], 200, "none")]
  /\ UNCHANGED <<stock, isActive, price, catalog, carts, nextItemId, orders, restored>>

\* ---------------------------------------------------------- updateProduct
\* a body field: left out (undefined) or given
Opt(vals, none) == {[given |-> FALSE, v |-> none]} \cup {[given |-> TRUE, v |-> x] : x \in vals}

\* the route runs authorize('ADMIN') before the handler
UpdateProductStart(s, u, p, pr, st, act) ==
  /\ req[s].pc = "idle"
  /\ LET r == [op |-> "updateProduct", pc |-> "update", user |-> u, productId |-> p,
               price |-> pr, stock |-> st, isActive |-> act]
     IN \/ /\ Role(u) # "ADMIN"
           /\ req' = [req EXCEPT ![s] = Finish(r, 403, "Forbidden")]
        \/ /\ Role(u) = "ADMIN"
           /\ p \notin catalog
           /\ req' = [req EXCEPT ![s] = Finish(r, 404, "NotFound")]
        \/ /\ Role(u) = "ADMIN"
           /\ p \in catalog
           /\ req' = [req EXCEPT ![s] = r]
  /\ UNCHANGED db

\* order lines that refer to the product's price instead of holding a copy
UpdateProductUpdateRepricing(s) ==
  /\ req[s].pc = "update"
  /\ req[s].op = "updateProduct"
  /\ LET r == req[s]
     IN /\ price' = IF r.price.given THEN [price EXCEPT ![r.productId] = r.price.v] ELSE price
        /\ stock' = IF r.stock.given THEN [stock EXCEPT ![r.productId] = r.stock.v] ELSE stock
        /\ isActive' = IF r.isActive.given
                       THEN [isActive EXCEPT ![r.productId] = r.isActive.v] ELSE isActive
        /\ orders' = [o \in DOMAIN orders |->
                        [orders[o] EXCEPT !.items =
                           [k \in DOMAIN orders[o].items |->
                              [orders[o].items[k] EXCEPT !.price =
                                 price'[orders[o].items[k].productId]]]]]
        /\ req' = [req EXCEPT ![s] = Finish(r, 200, "none")]
  /\ UNCHANGED <<catalog, carts, cartItems, nextItemId, restored>>

UpdateProductUpdate(s) ==
  /\ req[s].pc = "update"
  /\ req[s].op = "updateProduct"
  /\ LET r == req[s]
     IN \/ /\ r.productId \in catalog
           /\ price' = IF r.price.given THEN [price EXCEPT ![r.productId] = r.price.v]
                       ELSE price
           /\ stock' = IF r.stock.given THEN [stock EXCEPT ![r.productId] = r.stock.v]
                       ELSE stock
           /\ isActive' = IF r.isActive.given
                          THEN [isActive EXCEPT ![r.productId] = r.isActive.v] ELSE isActive
           /\ req' = [req EXCEPT ![s] = Finish(r, 200, "none")]
        \/ /\ r.productId \notin catalog
           /\ UNCHANGED <<price, stock, isActive>>
           /\ req' = [req EXCEPT ![s] = Finish(r, 404, "NotFound")]
  /\ UNCHANGED <<catalog, carts, cartItems, nextItemId, orders, restored>>

\* the transaction throws (store contention, timeout): rolled back, next(error)
TxFail(s) ==
  /\ req[s].pc = "tx"
  /\ req' = [req EXCEPT ![s] = Finish(req[s], 500, "Internal")]
  /\ UNCHANGED db

\* the response has been sent; the slot takes the next request
Respond(s) ==
  /\ req[s].pc = "done"
  /\ req' = [req EXCEPT ![s] = Idle]
  /\ UNCHANGED db

\* ------------------------------------------------------------- requests
CartRequest(s) ==
  \/ \E u \in Users, p \in ProductInputs \cup {MissingId}, q \in QtyInputs, d \in Designs :
        AddToCartStart(s, u, p, q, d)
  \/ AddToCartFindCart(s)
  \/ AddToCartCreateCart(s)
  \/ AddToCartFindItem(s)
  \/ AddToCartUpdate(s)
  \/ AddToCartCreate(s)
  \/ \E u \in Users, id \in ItemIds, q \in QtyInputs : UpdateCartItemStart(s, u, id, q)
  \/ UpdateCartItemFindItem(s)
  \/ UpdateCartItemUpdate(s)

OrderRequest(s, sts) ==
  \/ \E u \in Users, addr \in BOOLEAN : PlaceOrderStart(s, u, addr)
  \/ PlaceOrderCommit(s)
  \/ \E u \in Users, o \in OrderIds : CancelOrderStart(s, u, o)
  \/ CancelOrderCommit(s)
  \/ \E u \in Users, o \in OrderIds, st \in sts : UpdateOrderStatusStart(s, u, o, st)
  \/ UpdateOrderStatusUpdate(s)
  \/ \E u \in Users, p \in ProductInputs : DeleteProductStart(s, u, p)
  \/ DeleteProductUpdate(s)
  \/ TxFail(s)
  \/ Respond(s)

\* getCart, removeFromCart, clearCart
CartViewRequest(s) ==
  \/ \E u \in Users : GetCartStart(s, u)
  \/ GetCartCreateCart(s)
  \/ \E u \in Users, id \in ItemIds : RemoveFromCartStart(s, u, id)
  \/ RemoveFromCartFindItem(s)
  \/ RemoveFromCartDelete(s)
  \/ \E u \in Users : ClearCartStart(s, u)
  \/ ClearCartDeleteMany(s)

\* PUT /api/products/:id with the given values for price, stock, isActive
ProductRequest(s, prices, stocks, actives) ==
  \/ \E u \in Users, p \in ProductInputs, pr \in Opt(prices, 0), st \in Opt(stocks, 0),
        act \in Opt(actives, FALSE) : UpdateProductStart(s, u, p, pr, st, act)
  \/ UpdateProductUpdate(s)

\* one request at a time: every handler, run to its response
Next == \E s \in SeqSlots : CartRequest(s) \/ OrderRequest(s, StatusInputs)

Spec == Init /\ [][Next]_vars

\* ---------------------------------------------------- concurrent requests
\* carts as addToCart leaves them: per user one plain line, or a plain and a
\* customized line of the same product
RaceStatusInputs == {"CONFIRMED", "SHIPPED"}

SeedLines ==
  {<<[quantity |-> 1, customDesign |-> NULL]>>,
   <<[quantity |-> 1, customDesign |-> NULL], [quantity |-> 1, customDesign |-> "art"]>>}

RECURSIVE SeedItems(_, _, _)
SeedItems(us, seed, base) ==
  IF us = {} THEN {}
  ELSE LET u == CHOOSE x \in us : \A y \in us : x <= y
       IN {[id |-> base + k, cartId |-> u, productId |-> CHOOSE p \in Products : TRUE,
            quantity |-> seed[u][k].quantity, customDesign |-> seed[u][k].customDesign] :
             k \in 1..Len(seed[u])}
          \cup SeedItems(us \ {u}, seed, base + Len(seed[u]))

InitOrders ==
  /\ stock = [p \in Products |-> InitStock]
  /\ isActive = [p \in Products |-> TRUE]
  /\ price = InitPrice
  /\ catalog = Products
  /\ carts = Users
  /\ \E seed \in [Users -> SeedLines] :
       /\ cartItems = SeedItems(Users, seed, 0)
       /\ nextItemId = Cardinality(cartItems) + 1
  /\ orders = <<>>
  /\ restored = <<>>
  /\ req = [s \in Slots |-> Idle]

NextOrders == \E s \in Slots : OrderRequest(s, RaceStatusInputs)

SpecOrders == InitOrders /\ [][NextOrders]_vars

\* ------------------------------------------------------- order lifecycle
\* one request at a time on seeded carts, every status value in the bodies
LifecycleStatusInputs == validStatuses \cup {"pending", "bogus", NULL}

NextLifecycle == \E s \in SeqSlots : OrderRequest(s, LifecycleStatusInputs)

SpecLifecycle == InitOrders /\ [][NextLifecycle]_vars

\* ------------------------------------------------------------ cart handlers
\* one request at a time: the cart handlers, with an admin changing a
\* product's stock and isActive in between
StockInputs == {0, MaxStock}

NextCart ==
  \E s \in SeqSlots :
    \/ CartRequest(s)
    \/ CartViewRequest(s)
    \/ ProductRequest(s, {}, StockInputs, BOOLEAN)
    \/ Respond(s)

SpecCart == Init /\ [][NextCart]_vars

\* two requests in flight: first accesses of the cart (getCart, addToCart)
NextCartRace ==
  \E s \in Slots :
    \/ \E u \in Users : GetCartStart(s, u)
    \/ GetCartCreateCart(s)
    \/ \E u \in Users, p \in Products, q \in QtyInputs, d \in Designs :
          AddToCartStart(s, u, p, q, d)
    \/ AddToCartFindCart(s)
    \/ AddToCartCreateCart(s)
    \/ AddToCartFindItem(s)
    \/ AddToCartUpdate(s)
    \/ AddToCartCreate(s)
    \/ Respond(s)

SpecCartRace == Init /\ [][NextCartRace]_vars

\* ---------------------------------------------------------------- catalog
\* one request at a time on seeded carts: orders, with an admin changing
\* prices and stock in between
PriceInputs == {2019}

NextCatalog ==
  \E s \in SeqSlots :
    \/ OrderRequest(s, RaceStatusInputs)
    \/ ProductRequest(s, PriceInputs, StockInputs, {TRUE})

SpecCatalog == InitOrders /\ [][NextCatalog]_vars

\* --------------------------------------------------------------- checkout
\* one request at a time from an empty store: carts are filled through
\* getCart and addToCart (positive quantities), emptied, ordered from, and an
\* admin withdraws the product
NextCheckout ==
  \E s \in SeqSlots :
    \/ \E u \in Users : GetCartStart(s, u)
    \/ GetCartCreateCart(s)
    \/ \E u \in Users, p \in Products, q \in 1..MaxQty, d \in Designs :
          AddToCartStart(s, u, p, q, d)
    \/ AddToCartFindCart(s)
    \/ AddToCartCreateCart(s)
    \/ AddToCartFindItem(s)
    \/ AddToCartCreate(s)
    \/ \E u \in Users : ClearCartStart(s, u)
    \/ ClearCartDeleteMany(s)
    \/ \E u \in Users, addr \in BOOLEAN : PlaceOrderStart(s, u, addr)
    \/ PlaceOrderCommit(s)
    \/ \E u \in Users, p \in Products : DeleteProductStart(s, u, p)
    \/ DeleteProductUpdate(s)
    \/ TxFail(s)
    \/ Respond(s)

SpecCheckout == Init /\ [][NextCheckout]_vars

\* ---------------------------------------------------------- checkout race
\* two requests in flight from an empty store: carts are filled (positive
\* quantities), lines are updated, and orders are placed meanwhile
NextCheckoutRace ==
  \E s \in Slots :
    \/ \E u \in Users, p \in Products, q \in 1..MaxQty, d \in Designs :
          AddToCartStart(s, u, p, q, d)
    \/ AddToCartFindCart(s)
    \/ AddToCartCreateCart(s)
    \/ AddToCartFindItem(s)
    \/ AddToCartCreate(s)
    \/ \E u \in Users, id \in ItemIds, q \in 1..MaxQty : UpdateCartItemStart(s, u, id, q)
    \/ UpdateCartItemFindItem(s)
    \/ UpdateCartItemUpdate(s)
    \/ \E u \in Users : PlaceOrderStart(s, u, TRUE)
    \/ PlaceOrderCommit(s)
    \/ TxFail(s)
    \/ Respond(s)

SpecCheckoutRace == Init /\ [][NextCheckoutRace]_vars

\* -------------------------------------------------------------- merge race
\* two addToCart requests in flight for uncustomized products, with an admin
\* restocking
NextMergeRace ==
  \E s \in Slots :
    \/ \E u \in Users, p \in Products, q \in 1..MaxQty : AddToCartStart(s, u, p, q, NULL)
    \/ AddToCartFindCart(s)
    \/ AddToCartCreateCart(s)
    \/ AddToCartFindItem(s)
    \/ AddToCartUpdate(s)
    \/ AddToCartCreate(s)
    \/ ProductRequest(s, {}, StockInputs, {})
    \/ Respond(s)

SpecMergeRace == Init /\ [][NextMergeRace]_vars

\* ------------------------------------------------------------------ view
\* one request at a time from an empty store: carts are filled and viewed while
\* an admin changes prices and stock
NextView ==
  \E s \in SeqSlots :
    \/ \E u \in Users : GetCartStart(s, u)
    \/ GetCartCreateCart(s)
    \/ \E u \in Users, p \in Products, q \in 1..MaxQty, d \in Designs :
          AddToCartStart(s, u, p, q, d)
    \/ AddToCartFindCart(s)
    \/ AddToCartCreateCart(s)
    \/ AddToCartFindItem(s)
    \/ AddToCartUpdate(s)
    \/ AddToCartCreate(s)
    \/ \E u \in Users : ClearCartStart(s, u)
    \/ ClearCartDeleteMany(s)
    \/ ProductRequest(s, PriceInputs, StockInputs, {})
    \/ Respond(s)

SpecView == Init /\ [][NextView]_vars

\* ------------------------------------------------------ two customers
\* each customer has a slot of their own: every cart handler and placeOrder of
\* one customer interleaved with those of the other
NextIsolation ==
  \E s \in Slots :
    \/ \E u \in Users \cap {s} : GetCartStart(s, u)
    \/ GetCartCreateCart(s)
    \/ \E u \in Users \cap {s}, p \in Products, q \in 0..MaxQty : AddToCartStart(s, u, p, q, NULL)
    \/ AddToCartFindCart(s)
    \/ AddToCartCreateCart(s)
    \/ AddToCartFindItem(s)
    \/ AddToCartUpdate(s)
    \/ AddToCartCreate(s)
    \/ \E u \in Users \cap {s}, id \in ItemIds, q \in 1..MaxQty : UpdateCartItemStart(s, u, id, q)
    \/ UpdateCartItemFindItem(s)
    \/ UpdateCartItemUpdate(s)
    \/ \E u \in Users \cap {s}, id \in ItemIds : RemoveFromCartStart(s, u, id)
    \/ RemoveFromCartFindItem(s)
    \/ RemoveFromCartDelete(s)
    \/ \E u \in Users \cap {s} : ClearCartStart(s, u)
    \/ ClearCartDeleteMany(s)
    \/ \E u \in Users \cap {s} : PlaceOrderStart(s, u, TRUE)
    \/ PlaceOrderCommit(s)
    \/ TxFail(s)
    \/ Respond(s)

SpecIsolation == Init /\ [][NextIsolation]_vars

\* ---------------------------------------------------------------- removal
\* a product row leaves the catalog (no cart line refers to it any more);
\* order lines keep its id
ProductRowRemoved(p) ==
  /\ p \in catalog
  /\ \A i \in cartItems : i.productId # p
  /\ catalog' = catalog \ {p}
  /\ UNCHANGED <<stock, isActive, price, carts, cartItems, nextItemId, orders, restored, req>>

NextRemoval ==
  \/ \E s \in SeqSlots : OrderRequest(s, RaceStatusInputs)
  \/ \E p \in Products : ProductRowRemoved(p)

SpecRemoval == InitOrders /\ [][NextRemoval]_vars

\* ================================================================= claims
PlaceRead(s) == req[s].pc = "idle" /\ req'[s].op = "placeOrder"
PlaceCommitted(s) ==
  /\ req[s].op = "placeOrder" /\ req[s].pc = "tx"
  /\ req'[s].pc = "done" /\ req'[s].status = 201
CancelRead(s) == req[s].pc = "idle" /\ req'[s].op = "cancelOrder"
CancelCommitted(s) ==
  /\ req[s].op = "cancelOrder" /\ req[s].pc = "tx"
  /\ req'[s].pc = "done" /\ req'[s].status = 200
OverStocked(u) == \E i \in ItemsOf(u) : i.quantity > stock[i.productId]
AllActive(u) == \A i \in ItemsOf(u) : isActive[i.productId]

\* C1: every product's stock is >= 0 in every reachable state.
StockNonNegative == \A p \in Products : stock[p] >= 0

\* C2: two placeOrder requests of different customers (shipping address
\* given), each having read a cart of one line of quantity 1 of the same
\* product while its stock was 1 (neither saw the other's commit), both
\* answered without a store failure:
\* exactly one succeeded, the other failed with InsufficientStock, the two
\* customers hold exactly one order and the stock is 0.
LastUnitRacer(s, p) ==
  /\ req[s].op = "placeOrder"
  /\ req[s].pc = "done"
  /\ req[s].status # 500
  /\ req[s].addr
  /\ Len(req[s].snap) = 1
  /\ req[s].snap[1].productId = p
  /\ req[s].snap[1].quantity = 1
  /\ req[s].snap[1].stock = 1
LastUnitExactlyOneWins ==
  \A s1 \in Slots, s2 \in Slots, p \in Products :
    (s1 # s2 /\ LastUnitRacer(s1, p) /\ LastUnitRacer(s2, p) /\ req[s1].user # req[s2].user)
    => /\ Cardinality({s \in {s1, s2} : req[s].status = 201}) = 1
       /\ \A s \in {s1, s2} : req[s].status # 201 => req[s].err = "InsufficientStock"
       /\ Cardinality({o \in DOMAIN orders :
                         orders[o].userId \in {req[s1].user, req[s2].user}}) = 1
       /\ stock[p] = 0

\* C3: placeOrder is all-or-nothing.  A step that adds an order adds exactly
\* one, holding all the lines of the committing request, and in the same
\* step decrements every product's stock by the ordered quantity and empties
\* the owner's cart; a step of a placeOrder request that adds no order
\* (failed validation, failed transaction, response) leaves stock, cart
\* lines and orders as they were.
PlaceOrderAllOrNothing ==
  [][/\ orders' # orders /\ Len(orders') # Len(orders) =>
          /\ Len(orders') = Len(orders) + 1
          /\ SubSeq(orders', 1, Len(orders)) = orders
          /\ LET o == orders'[Len(orders')]
             IN /\ \E s \in Slots : PlaceCommitted(s) /\ o.items = OrderItems(req[s].snap)
                                    /\ o.userId = req[s].user
                /\ o.items # <<>>
                /\ \A p \in Products : stock'[p] = stock[p] - QtyOf(o.items, p)
                /\ o.userId \in carts'
                /\ {i \in cartItems' : i.cartId = o.userId} = {}
     /\ \A s \in Slots :
          (Len(orders') = Len(orders) /\ req'[s] # req[s]
             /\ (req[s].op = "placeOrder" \/ req'[s].op = "placeOrder"))
          => UNCHANGED <<stock, cartItems, orders>>]_vars
PlaceOrderCommittedSeen ==
  \E s \in Slots :
    /\ req[s].op = "placeOrder" /\ req[s].pc = "done" /\ req[s].status = 201
    /\ Len(orders) >= 1
    /\ ItemsOf(req[s].user) = {}
    /\ \E p \in Products : stock[p] < InitStock

\* C4 as stated: a placeOrder call on a cart with a line whose quantity
\* exceeds the product's current stock fails with InsufficientStock and
\* leaves stock, cart lines and orders unchanged.
OverStockedPlaceFailsInsufficient ==
  [][\A s \in Slots :
       (PlaceRead(s) /\ OverStocked(req'[s].user))
       => /\ req'[s].pc = "done"
          /\ req'[s].err = "InsufficientStock"
          /\ UNCHANGED <<stock, cartItems, orders>>]_vars
\* C4 amended: such a call always fails with status 400 and changes nothing;
\* the error is InsufficientStock when a shipping address is given and every
\* line's product is active, InvalidArgument when the address is missing, and
\* InsufficientStock or ProductUnavailable when some line's product is inactive.
OverStockedPlaceChangesNothing ==
  [][\A s \in Slots :
       (PlaceRead(s) /\ OverStocked(req'[s].user))
       => /\ req'[s].pc = "done"
          /\ req'[s].status = 400
          /\ (req'[s].addr /\ AllActive(req'[s].user)) => req'[s].err = "InsufficientStock"
          /\ ~req'[s].addr => req'[s].err = "InvalidArgument"
          /\ req'[s].addr => req'[s].err \in {"InsufficientStock", "ProductUnavailable"}
          /\ UNCHANGED <<stock, cartItems, orders>>]_vars
OverStockedPlaceRejected ==
  \E s \in Slots :
    /\ req[s].op = "placeOrder" /\ req[s].pc = "done"
    /\ req[s].err = "InsufficientStock"
    /\ OverStocked(req[s].user)

\* C5: a placeOrder that commits on the cart and products it read (nothing
\* changed them in between) appends exactly one order, PENDING, owned by the
\* caller, whose lines copy the cart's lines one for one (product, quantity,
\* current unit price, customization); each product's stock decreases by the
\* quantity ordered of it; the cart row stays and has no lines.
PlaceOrderEffect ==
  [][\A s \in Slots :
       (PlaceCommitted(s) /\ req[s].snap = CartLines(req[s].user))
       => LET u == req[s].user
              its == SeqById(ItemsOf(u))
              o == orders'[Len(orders')]
          IN /\ Len(orders') = Len(orders) + 1
             /\ SubSeq(orders', 1, Len(orders)) = orders
             /\ o.status = "PENDING"
             /\ o.userId = u
             /\ Len(o.items) = Len(its)
             /\ \A k \in 1..Len(its) :
                  /\ o.items[k].productId = its[k].productId
                  /\ o.items[k].quantity = its[k].quantity
                  /\ o.items[k].price = price[its[k].productId]
                  /\ o.items[k].customDesign = its[k].customDesign
             /\ \A p \in Products : stock'[p] = stock[p] - QtyOf(its, p)
             /\ u \in carts'
             /\ {i \in cartItems' : i.cartId = u} = {}]_vars
PlaceOrderLastUnits ==
  \E s \in Slots, p \in Products :
    /\ req[s].op = "placeOrder" /\ req[s].pc = "done" /\ req[s].status = 201
    /\ Len(req[s].snap) = 1
    /\ req[s].snap[1].productId = p
    /\ req[s].snap[1].quantity = InitStock
    /\ req[s].snap[1].stock = InitStock
    /\ stock[p] = 0
    /\ ItemsOf(req[s].user) = {}
    /\ orders[Len(orders)].status = "PENDING"

\* C6: round trip.  The placement of an order takes from each product's
\* stock the quantity the order's lines hold of it, and cancelOrder
\* committing on that order while it is PENDING gives exactly that quantity
\* back and sets the status to CANCELLED: the two stock deltas sum to 0.
PlaceCancelRoundTrip ==
  [][\A s \in Slots :
       /\ PlaceCommitted(s) =>
            \A p \in Products :
              stock'[p] - stock[p] = 0 - QtyOf(orders'[Len(orders')].items, p)
       /\ (CancelCommitted(s) /\ orders[req[s].orderId].status = "PENDING") =>
            /\ \A p \in Products :
                 stock'[p] - stock[p] = QtyOf(orders[req[s].orderId].items, p)
            /\ orders'[req[s].orderId].status = "CANCELLED"
            /\ orders'[req[s].orderId].items = orders[req[s].orderId].items]_vars
RoundTripDone ==
  \E s \in Slots, p \in Products :
    /\ req[s].op = "cancelOrder" /\ req[s].pc = "done" /\ req[s].status = 200
    /\ orders[req[s].orderId].status = "CANCELLED"
    /\ restored[req[s].orderId] = 1
    /\ QtyOf(orders[req[s].orderId].items, p) > 0
    /\ stock[p] = InitStock

\* C7 as stated: cancelOrder on an order that is already CANCELLED fails
\* with InvalidState and leaves stock and the order's status unchanged.
CancelCancelledInvalidState ==
  [][\A s \in Slots :
       (CancelRead(s) /\ req'[s].orderId <= Len(orders)
          /\ orders[req'[s].orderId].status = "CANCELLED")
       => /\ req'[s].pc = "done"
          /\ req'[s].err = "InvalidState"
          /\ UNCHANGED <<stock, orders>>]_vars
\* C7 amended: cancelOrder on an already CANCELLED order always fails and
\* leaves stock and orders unchanged; it fails with InvalidState when the
\* requester is the owner or an ADMIN, and with Forbidden otherwise.
CancelCancelledRejected ==
  [][\A s \in Slots :
       (CancelRead(s) /\ req'[s].orderId <= Len(orders)
          /\ orders[req'[s].orderId].status = "CANCELLED")
       => LET u == req'[s].user
              o == orders[req'[s].orderId]
          IN /\ req'[s].pc = "done"
             /\ req'[s].err = IF o.userId = u \/ Role(u) = "ADMIN"
                              THEN "InvalidState" ELSE "Forbidden"
             /\ UNCHANGED <<stock, orders>>]_vars
SecondCancelRejected ==
  \E s \in Slots :
    /\ req[s].op = "cancelOrder" /\ req[s].pc = "done"
    /\ req[s].err = "InvalidState"
    /\ orders[req[s].orderId].status = "CANCELLED"
    /\ restored[req[s].orderId] = 1

\* C8: the stock of an order's lines is restored at most once: what
\* cancellations credited to a product for one order never exceeds what the
\* order's placement took from it.
RestoredAtMostOnce ==
  \A o \in DOMAIN orders : \A p \in Products :
    QtyOf(orders[o].items, p) > 0
    => restored[o] * QtyOf(orders[o].items, p) <= QtyOf(orders[o].items, p)

\* C9 as stated: cancelOrder on an order whose status is neither PENDING nor
\* CONFIRMED fails with InvalidState and leaves stock and orders unchanged.
CancelLateInvalidState ==
  [][\A s \in Slots :
       (CancelRead(s) /\ req'[s].orderId <= Len(orders)
          /\ orders[req'[s].orderId].status \in validStatuses \ {"PENDING", "CONFIRMED"})
       => /\ req'[s].pc = "done"
          /\ req'[s].err = "InvalidState"
          /\ UNCHANGED <<stock, orders>>]_vars
\* C9 amended: such a cancelOrder always fails and leaves stock and orders
\* unchanged; it fails with InvalidState when the requester is the owner or
\* an ADMIN, and with Forbidden otherwise.
CancelLateRejected ==
  [][\A s \in Slots :
       (CancelRead(s) /\ req'[s].orderId <= Len(orders)
          /\ orders[req'[s].orderId].status \in validStatuses \ {"PENDING", "CONFIRMED"})
       => LET u == req'[s].user
              o == orders[req'[s].orderId]
          IN /\ req'[s].pc = "done"
             /\ req'[s].err = IF o.userId = u \/ Role(u) = "ADMIN"
                              THEN "InvalidState" ELSE "Forbidden"
             /\ UNCHANGED <<stock, orders>>]_vars
ShippedCancelRejected ==
  \E s \in Slots :
    /\ req[s].op = "cancelOrder" /\ req[s].pc = "done"
    /\ req[s].err = "InvalidState"
    /\ orders[req[s].orderId].status = "SHIPPED"

\* C10: no cart line has a zero or negative quantity.
CartQuantitiesPositive == \A i \in cartItems : i.quantity >= 1

AddRead(s) == req[s].pc = "idle" /\ req'[s].op = "addToCart"
AddWritten(s) ==
  /\ req[s].op = "addToCart" /\ req[s].pc \in {"update", "create"}
  /\ req'[s].pc = "done" /\ req'[s].status = 201
PlainLines(u, p) == {i \in ItemsOf(u) : i.productId = p /\ i.customDesign = NULL}

\* C11: in every reachable state a cart holds at most one line without
\* customization per product.
OnePlainLinePerProduct ==
  \A u \in Users, p \in Products : Cardinality(PlainLines(u, p)) <= 1

\* C12: an addToCart that succeeds for an uncustomized product already
\* present as an uncustomized line adds the requested quantity to that line
\* and creates no line; one that succeeds with a customization (or with no
\* matching line) creates exactly one new line, with the requested product,
\* quantity and customization, and changes no other line.
AddMergesOrCreates ==
  [][\A s \in Slots :
       AddWritten(s) =>
         LET r == req[s]
             plain == PlainLines(r.user, r.productId)
         IN IF r.customDesign = NULL /\ plain # {}
            THEN \E i \in plain :
                   cartItems' = (cartItems \ {i})
                                  \cup {[i EXCEPT !.quantity = i.quantity + r.quantity]}
            ELSE \E n \in cartItems' :
                   /\ \A i \in cartItems : i.id # n.id
                   /\ cartItems' = cartItems \cup {n}
                   /\ n.cartId = r.user /\ n.productId = r.productId
                   /\ n.quantity = r.quantity /\ n.customDesign = r.customDesign]_vars
MergedBesideCustomized ==
  \E s \in Slots :
    /\ req[s].op = "addToCart" /\ req[s].pc = "done" /\ req[s].status = 201
    /\ req[s].customDesign = NULL /\ req[s].quantity = 1 /\ req[s].existing # 0
    /\ \E i \in PlainLines(req[s].user, req[s].productId) : i.quantity = 2
    /\ \E i \in ItemsOf(req[s].user) :
         i.productId = req[s].productId /\ i.customDesign # NULL
    /\ Cardinality(ItemsOf(req[s].user)) = 2

\* the quantity the cart would hold after the request: the matching
\* uncustomized line's quantity plus the requested one, or the requested one
Resulting(u, p, q, d) ==
  IF d = NULL /\ PlainLines(u, p) # {}
  THEN (CHOOSE i \in PlainLines(u, p) : TRUE).quantity + q
  ELSE q
AddRejectsExcess(active) ==
  \A s \in Slots :
    /\ (AddRead(s) /\ req'[s].productId \in Products /\ req'[s].pc = "done")
       => LET r == req'[s]
          IN (/\ Resulting(r.user, r.productId, r.quantity, r.customDesign)
                   > stock[r.productId]
              /\ active => isActive[r.productId])
             => r.err = "InsufficientStock" /\ r.status = 400
    /\ (req[s].op = "addToCart" /\ req[s].pc = "findItem")
       => LET r == req[s]
          IN Resulting(r.user, r.productId, r.quantity, r.customDesign) > stock[r.productId]
             => /\ req'[s].pc = "done"
                /\ req'[s].err = "InsufficientStock" /\ req'[s].status = 400
    /\ AddWritten(s)
       => \A i \in cartItems' \ cartItems :
            i.quantity <= stock[i.productId] /\ i.productId = req[s].productId
    /\ (req'[s].op = "addToCart" /\ req[s].pc # "done" /\ req'[s].pc = "done"
          /\ req'[s].err = "InsufficientStock")
       => UNCHANGED cartItems

\* C13 as stated: addToCart fails with InsufficientStock, leaving the cart's
\* lines unchanged, whenever the resulting quantity would exceed the
\* product's current stock.
AddExcessInsufficientStock == [][AddRejectsExcess(FALSE)]_vars
\* C13 amended: for an active product, addToCart fails with InsufficientStock
\* whenever the resulting quantity would exceed the product's current stock;
\* no successful addToCart writes a quantity above the stock, and a failing
\* one leaves the cart's lines unchanged.
AddExcessRejected == [][AddRejectsExcess(TRUE)]_vars
MergeOverStockRejected ==
  \E s \in Slots :
    /\ req[s].op = "addToCart" /\ req[s].pc = "done"
    /\ req[s].err = "InsufficientStock"
    /\ req[s].quantity = 1 /\ req[s].customDesign = NULL
    /\ isActive[req[s].productId]
    /\ stock[req[s].productId] >= 1
    /\ \E i \in PlainLines(req[s].user, req[s].productId) :
         i.quantity = stock[req[s].productId]

\* C14: addToCart for a product that does not exist or is inactive fails
\* with NotFound and creates or changes no cart line (and no cart).
AddUnknownProductNotFound ==
  [][\A s \in Slots :
       (AddRead(s) /\ req'[s].productId # MissingId
          /\ (req'[s].productId \notin Products \/ ~isActive[req'[s].productId]))
       => /\ req'[s].pc = "done"
          /\ req'[s].err = "NotFound" /\ req'[s].status = 404
          /\ UNCHANGED <<cartItems, carts, nextItemId>>]_vars
InactiveProductRefused ==
  \E s \in Slots :
    /\ req[s].op = "addToCart" /\ req[s].pc = "done" /\ req[s].err = "NotFound"
    /\ req[s].productId \in Products
    /\ ~isActive[req[s].productId]
    /\ req[s].quantity >= 1 /\ req[s].quantity <= stock[req[s].productId]

UpdRead(s) == req[s].pc = "idle" /\ req'[s].op = "updateCartItem"
LineOf(u, id) == {i \in ItemsOf(u) : i.id = id}
LineStock(u, id) == stock[(CHOOSE i \in LineOf(u, id) : TRUE).productId]
UpdateLineRejects(inOrder) ==
  \A s \in Slots :
    /\ UpdRead(s)
       => LET r == req'[s]
          IN /\ r.quantity < 1
                => r.pc = "done" /\ r.err = "InvalidArgument" /\ r.status = 400
             /\ (r.user \notin carts /\ (inOrder => r.quantity >= 1))
                => r.pc = "done" /\ r.err = "NotFound" /\ r.status = 404
             /\ (LineOf(r.user, r.itemId) = {} /\ r.pc = "done"
                   /\ (inOrder => r.quantity >= 1))
                => r.err = "NotFound" /\ r.status = 404
             /\ (LineOf(r.user, r.itemId) # {} /\ r.pc = "done"
                   /\ r.quantity > LineStock(r.user, r.itemId)
                   /\ (inOrder => r.quantity >= 1))
                => r.err = "InsufficientStock" /\ r.status = 400
    /\ (req[s].op = "updateCartItem" /\ req[s].pc = "findItem")
       => LET r == req[s]
          IN /\ LineOf(r.user, r.itemId) = {}
                => req'[s].pc = "done" /\ req'[s].err = "NotFound" /\ req'[s].status = 404
             /\ (LineOf(r.user, r.itemId) # {} /\ r.quantity > LineStock(r.user, r.itemId))
                => /\ req'[s].pc = "done"
                   /\ req'[s].err = "InsufficientStock" /\ req'[s].status = 400
    /\ (req'[s].op = "updateCartItem" /\ req[s].pc # "done" /\ req'[s].pc = "done"
          /\ req'[s].status # 200)
       => UNCHANGED cartItems

\* C15 as stated: updateCartItem fails with InvalidArgument when quantity < 1,
\* with NotFound when the line is not in the caller's own cart, and with
\* InsufficientStock when quantity exceeds the product's current stock; every
\* failing call leaves the cart lines unchanged.
UpdateLineErrors == [][UpdateLineRejects(FALSE)]_vars
\* C15 amended: updateCartItem fails with InvalidArgument when quantity < 1;
\* when quantity >= 1 it fails with NotFound if the line is not in the
\* caller's own cart and with InsufficientStock if the line is there and
\* quantity exceeds the product's current stock; every failing call leaves
\* the cart lines unchanged.
UpdateLineErrorsInOrder == [][UpdateLineRejects(TRUE)]_vars
UpdateOverStockRejected ==
  \E s \in Slots :
    /\ req[s].op = "updateCartItem" /\ req[s].pc = "done"
    /\ req[s].err = "InsufficientStock"
    /\ \E i \in LineOf(req[s].user, req[s].itemId) :
         req[s].quantity > stock[i.productId] /\ i.quantity >= 1

\* C16: removeFromCart fails with NotFound when the line is absent from the
\* caller's cart (or the caller has no cart), changing no line; otherwise it
\* succeeds and removes exactly that line: every other line, of this and of
\* every other cart, stays as it was.
RemoveLineExact ==
  [][\A s \in Slots :
       /\ (req[s].pc = "idle" /\ req'[s].op = "removeFromCart")
          => LET r == req'[s]
             IN /\ r.user \notin carts
                   => r.pc = "done" /\ r.err = "NotFound" /\ r.status = 404
                /\ r.pc = "done" => LineOf(r.user, r.itemId) = {} /\ r.err = "NotFound"
       /\ (req[s].op = "removeFromCart" /\ req[s].pc = "findItem")
          => LET r == req[s]
             IN IF LineOf(r.user, r.itemId) = {}
                THEN req'[s].pc = "done" /\ req'[s].err = "NotFound" /\ req'[s].status = 404
                ELSE req'[s].pc = "delete"
       /\ (req[s].op = "removeFromCart" /\ req[s].pc = "delete")
          => LET r == req[s]
             IN /\ req'[s].pc = "done" /\ req'[s].status = 200
                /\ \E i \in LineOf(r.user, r.itemId) : cartItems' = cartItems \ {i}
                /\ UNCHANGED <<carts, stock, orders>>
       /\ (req'[s].op = "removeFromCart" /\ req[s].pc # "done" /\ req'[s].pc = "done"
             /\ req'[s].status # 200)
          => UNCHANGED cartItems]_vars
LineRemovedOthersKept ==
  \E s \in Slots :
    /\ req[s].op = "removeFromCart" /\ req[s].pc = "done" /\ req[s].status = 200
    /\ \A i \in cartItems : i.id # req[s].itemId
    /\ ItemsOf(req[s].user) # {}

ViewAlwaysSucceeds ==
  \A s \in Slots :
    (req[s].op = "getCart" /\ req[s].pc = "done")
    => req[s].status = 200 /\ req[s].user \in carts

\* C19: an order, once created, keeps its lines (product id, unit price,
\* quantity, customization, in number and order), its total and its owner
\* through every later step; orders are only ever appended.
OrderLinesFrozen ==
  [][\A o \in DOMAIN orders :
       /\ o \in DOMAIN orders'
       /\ orders'[o].items = orders[o].items
       /\ orders'[o].total = orders[o].total
       /\ orders'[o].userId = orders[o].userId]_vars
OrderOutlivesPriceChange ==
  \E o \in DOMAIN orders : \E k \in DOMAIN orders[o].items :
    /\ orders[o].items[k].price # price[orders[o].items[k].productId]
    /\ orders[o].status = "CANCELLED"
    /\ Len(orders) = MaxOrders

\* C20: every order's total is the sum over its own lines of stored unit
\* price times quantity, rounded half up to two decimals (prices in
\* thousandths, totals in hundredths), in every reachable state.
RECURSIVE OrderSum(_)
OrderSum(items) ==
  IF items = <<>> THEN 0
  ELSE Head(items).price * Head(items).quantity + OrderSum(Tail(items))
TotalIsRoundedLineSum ==
  \A o \in DOMAIN orders :
    /\ 10 * orders[o].total <= OrderSum(orders[o].items) + 5
    /\ OrderSum(orders[o].items) + 5 < 10 * orders[o].total + 10
TotalRoundedUp ==
  \E o \in DOMAIN orders :
    /\ Len(orders[o].items) = 2
    /\ OrderSum(orders[o].items) % 10 >= 5
    /\ 10 * orders[o].total > OrderSum(orders[o].items)
    /\ \A k \in DOMAIN orders[o].items : orders[o].items[k].price \in PriceInputs

NoCartOrEmpty(u) == u \notin carts \/ ItemsOf(u) = {}
PlacePreconditions(withAddress) ==
  \A s \in Slots :
    PlaceRead(s)
    => LET r == req'[s]
       IN /\ ~r.addr
             => /\ r.pc = "done" /\ r.err = "InvalidArgument" /\ r.status = 400
                /\ UNCHANGED <<stock, cartItems, carts, orders>>
          /\ (NoCartOrEmpty(r.user) /\ (withAddress => r.addr))
             => /\ r.pc = "done" /\ r.err = "EmptyCart" /\ r.status = 400
                /\ UNCHANGED <<stock, cartItems, carts, orders>>

\* C21 as stated: placeOrder without a shipping address fails with
\* InvalidArgument, and placeOrder when the customer has no cart or an empty
\* cart fails with EmptyCart; in both cases nothing changes.
PlaceFailsOnPreconditions == [][PlacePreconditions(FALSE)]_vars
\* C21 amended: placeOrder without a shipping address fails with
\* InvalidArgument; placeOrder with a shipping address when the customer has
\* no cart or an empty cart fails with EmptyCart; in both cases no order is
\* created and no stock, cart or cart line changes.
PlaceFailsOnPreconditionsInOrder == [][PlacePreconditions(TRUE)]_vars
EmptiedCartRefused ==
  \E s \in Slots :
    /\ req[s].op = "placeOrder" /\ req[s].pc = "done" /\ req[s].err = "EmptyCart"
    /\ req[s].user \in carts
    /\ nextItemId > 1
    /\ \E v \in Users : v \notin carts

HasInactiveLine(u) == \E i \in ItemsOf(u) : ~isActive[i.productId]
ShortOfActive(u) ==
  \E i \in ItemsOf(u) : isActive[i.productId] /\ stock[i.productId] < i.quantity

CommittedLinesActive ==
  [][\A s \in Slots :
       PlaceCommitted(s)
       => \A k \in DOMAIN orders'[Len(orders')].items :
            isActive[orders'[Len(orders')].items[k].productId]]_vars

\* C24: cancelOrder on an existing order by a requester who is neither its
\* owner nor an ADMIN fails with Forbidden and leaves every order and all
\* stock unchanged, whatever the order's status.
CancelByStrangerForbidden ==
  [][\A s \in Slots :
       (CancelRead(s) /\ req'[s].orderId <= Len(orders)
          /\ orders[req'[s].orderId].userId # req'[s].user
          /\ req'[s].user \notin Admins)
       => /\ req'[s].pc = "done"
          /\ req'[s].err = "Forbidden" /\ req'[s].status = 403
          /\ UNCHANGED <<stock, orders>>]_vars
StrangerRefusedOnDelivered ==
  \E s \in Slots :
    /\ req[s].op = "cancelOrder" /\ req[s].pc = "done" /\ req[s].err = "Forbidden"
    /\ orders[req[s].orderId].status = "DELIVERED"
    /\ orders[req[s].orderId].userId # req[s].user
    /\ \E o \in DOMAIN orders : orders[o].status = "PENDING"

\* C25: when a product referenced by a line of a PENDING or CONFIRMED order
\* no longer exists, a cancelOrder whose transaction runs (no store failure)
\* still completes: it succeeds, the order becomes CANCELLED and the stock
\* of the products that do exist is restored.
CancelSkipsRemovedProduct ==
  [][\A s \in Slots :
       (/\ req[s].op = "cancelOrder" /\ req[s].pc = "tx"
        /\ req'[s].pc = "done" /\ req'[s].status # 500
        /\ orders[req[s].orderId].status \in {"PENDING", "CONFIRMED"}
        /\ \E k \in DOMAIN orders[req[s].orderId].items :
             orders[req[s].orderId].items[k].productId \notin catalog)
       => /\ req'[s].status = 200
          /\ orders'[req[s].orderId].status = "CANCELLED"
          /\ \A p \in catalog :
               stock'[p] = stock[p] + QtyOf(orders[req[s].orderId].items, p)]_vars

\* C26: every change of an order's status follows the lifecycle
\* PENDING -> CONFIRMED -> PROCESSING -> SHIPPED -> DELIVERED, or
\* PENDING/CONFIRMED -> CANCELLED, or -> REFUNDED; no step changes the status
\* of an order that is DELIVERED, CANCELLED or REFUNDED.
LifecycleStep(a, b) ==
  \/ <<a, b>> \in {<<"PENDING", "CONFIRMED">>, <<"CONFIRMED", "PROCESSING">>,
                   <<"PROCESSING", "SHIPPED">>, <<"SHIPPED", "DELIVERED">>,
                   <<"PENDING", "CANCELLED">>, <<"CONFIRMED", "CANCELLED">>}
  \/ b = "REFUNDED" /\ a \notin {"DELIVERED", "CANCELLED", "REFUNDED"}
StatusFollowsLifecycle ==
  [][\A o \in DOMAIN orders :
       orders'[o].status # orders[o].status
       => LifecycleStep(orders[o].status, orders'[o].status)]_vars

\* C27: in every reachable state each order's status is one of the seven
\* enumerated values, and an updateOrderStatus whose target (compared without
\* regard to case) is outside them is rejected and leaves the orders
\* unchanged.
LifecycleStatuses ==
  {"PENDING", "CONFIRMED", "PROCESSING", "SHIPPED", "DELIVERED", "CANCELLED", "REFUNDED"}
StatusInEnumeration ==
  [][/\ \A o \in DOMAIN orders' : orders'[o].status \in LifecycleStatuses
     /\ \A s \in Slots :
          (/\ req[s].pc = "idle" /\ req'[s].op = "updateOrderStatus"
           /\ req'[s].newStatus # NULL
           /\ toUpperCase(req'[s].newStatus) \notin LifecycleStatuses)
          => /\ req'[s].pc = "done"
             /\ req'[s].status \in {400, 403}
             /\ UNCHANGED orders]_vars
BogusStatusRefused ==
  \E s \in Slots :
    /\ req[s].op = "updateOrderStatus" /\ req[s].pc = "done"
    /\ req[s].err = "InvalidArgument" /\ req[s].newStatus = "bogus"
    /\ req[s].user \in Admins
    /\ req[s].orderId <= Len(orders)
    /\ \E o \in DOMAIN orders : orders[o].status = "REFUNDED"

StockWrittenByOrders(s) == PlaceCommitted(s) \/ CancelCommitted(s)
\* C28: a product's stock is changed only by placeOrder and cancelOrder; no
\* other operation, in particular updateProduct and deleteProduct, changes it.
StockChangedOnlyByOrders ==
  [][stock' # stock => \E s \in Slots : StockWrittenByOrders(s)]_vars
\* C29: every stock change made by placeOrder and cancelOrder has an amount
\* >= 1 in its direction: a successful placeOrder decrements by line
\* quantities >= 1 and never increases a stock, a successful cancelOrder
\* increments by line quantities >= 1 and never decreases a stock.
StockMovesInDirection ==
  [][\A s \in Slots :
       /\ PlaceCommitted(s)
          => /\ \A k \in DOMAIN req[s].snap : req[s].snap[k].quantity >= 1
             /\ \A p \in Products : stock'[p] <= stock[p]
       /\ CancelCommitted(s)
          => /\ \A k \in DOMAIN req[s].snap : req[s].snap[k].quantity >= 1
             /\ \A p \in Products : stock'[p] >= stock[p]]_vars

\* the requester of the request slot s runs in this step
Acting(s) == req'[s] # req[s]
Requester(s) == IF req[s].pc = "idle" THEN req'[s].user ELSE req[s].user
LinesOfOthers(u, items) == {i \in items : i.cartId # u}
\* C30: no step of a customer's cart operation or placeOrder creates, changes
\* or deletes a line of another customer's cart, whatever is in flight
\* beside it; updateLine and removeLine looking up a line id of another
\* customer's cart end with NotFound, as for a line that does not exist.
CartsIsolated ==
  [][\A s \in Slots :
       /\ Acting(s)
          => LinesOfOthers(Requester(s), cartItems') = LinesOfOthers(Requester(s), cartItems)
       /\ (/\ req[s].op \in {"updateCartItem", "removeFromCart"}
           /\ req[s].pc = "findItem"
           /\ Acting(s)
           /\ \E i \in cartItems : i.id = req[s].itemId /\ i.cartId # req[s].user)
          => /\ req'[s].pc = "done"
             /\ req'[s].err = "NotFound" /\ req'[s].status = 404]_vars
ForeignLineNotFound ==
  \E s \in Slots, t \in Slots :
    /\ s # t
    /\ req[s].op \in {"updateCartItem", "removeFromCart"}
    /\ req[s].pc = "done" /\ req[s].err = "NotFound"
    /\ \E i \in cartItems : i.id = req[s].itemId /\ i.cartId # req[s].user
    /\ ItemsOf(req[s].user) # {}
    /\ req[t].pc \notin {"idle", "done"} /\ req[t].user # req[s].user

RECURSIVE ViewSum(_)
ViewSum(S) ==
  IF S = {} THEN 0
  ELSE LET i == CHOOSE x \in S : TRUE
       IN price[i.productId] * i.quantity + ViewSum(S \ {i})
RECURSIVE ViewCount(_)
ViewCount(S) ==
  IF S = {} THEN 0
  ELSE LET i == CHOOSE x \in S : TRUE IN i.quantity + ViewCount(S \ {i})
ViewAnswered(s) ==
  /\ req'[s].op = "getCart" /\ req[s].pc # "done"
  /\ req'[s].pc = "done" /\ req'[s].status = 200
\* C31: a view that succeeds returns a subtotal equal to the sum over the
\* cart's lines of the product's current price times the line quantity,
\* rounded to two decimals (prices in thousandths, subtotal in hundredths),
\* and an item count equal to the sum of the line quantities; both are 0 for
\* an empty cart.
ViewTotals ==
  [][\A s \in Slots :
       ViewAnswered(s)
       => LET r == req'[s]
              its == {i \in cartItems' : i.cartId = r.user}
          IN /\ 10 * r.subtotal <= ViewSum(its) + 5
             /\ ViewSum(its) + 5 < 10 * r.subtotal + 10
             /\ r.itemCount = ViewCount(its)
             /\ its = {} => r.subtotal = 0 /\ r.itemCount = 0]_vars
ViewOfRepricedCart ==
  \E s \in Slots :
    /\ req[s].op = "getCart" /\ req[s].pc = "done" /\ req[s].status = 200
    /\ Cardinality(ItemsOf(req[s].user)) = 2
    /\ req[s].itemCount = 3
    /\ \A p \in Products : price[p] \in PriceInputs
    /\ 10 * req[s].subtotal > ViewSum(ItemsOf(req[s].user))

CancelAnswers(s) ==
  /\ req[s].op = "cancelOrder" /\ req[s].pc = "tx"
  /\ req'[s].pc = "done" /\ req'[s].status # 500
\* C32: of two cancelOrder requests in flight for the same PENDING or
\* CONFIRMED order, the one that reaches its transaction after the other has
\* committed (the order is CANCELLED by then) fails with InvalidState and
\* changes no stock and no order: the stock is restored once.
ConcurrentCancelOnce ==
  [][\A s \in Slots :
       (CancelAnswers(s) /\ orders[req[s].orderId].status = "CANCELLED")
       => /\ req'[s].err = "InvalidState"
          /\ UNCHANGED <<stock, orders>>]_vars

\* C33: a cancelOrder whose transaction runs after an admin has moved the
\* order out of PENDING/CONFIRMED (to PROCESSING, SHIPPED, DELIVERED or
\* REFUNDED) since its status check does not cancel the order and restores no
\* stock.
CancelChecksStatusAtCommit ==
  [][\A s \in Slots :
       (CancelAnswers(s)
          /\ orders[req[s].orderId].status \in {"PROCESSING", "SHIPPED", "DELIVERED", "REFUNDED"})
       => /\ req'[s].status # 200
          /\ UNCHANGED <<stock, orders>>]_vars

\* quantity of product p over the orders that are not CANCELLED
LiveQty(p) ==
  SumSeq([o \in 1..Len(orders) |->
            IF orders[o].status = "CANCELLED" THEN 0 ELSE QtyOf(orders[o].items, p)])
\* C34: with no catalog stock edits, each product's stock equals its initial
\* stock minus the total quantity of that product over the lines of all
\* orders whose status is not CANCELLED, in every reachable state.
StockConserved == \A p \in Products : stock[p] = InitStock - LiveQty(p)

\* C35: a placeOrder that succeeds has read, for every product, lines whose
\* quantities sum to at most the product's stock; when the sum over a plain
\* and a customized line of one product exceeds the stock, placeOrder fails
\* with InsufficientStock and changes nothing.
SumOfLinesWithinStock ==
  [][\A s \in Slots :
       /\ PlaceCommitted(s)
          => \A p \in Products : QtyOf(req[s].snap, p) <= stock[p]
       /\ (PlaceRead(s) /\ req'[s].addr /\ AllActive(req'[s].user)
             /\ \E p \in Products : QtyOf(CartLines(req'[s].user), p) > stock[p])
          => /\ req'[s].pc = "done" /\ req'[s].err = "InsufficientStock"
             /\ UNCHANGED <<stock, cartItems, orders>>]_vars

PlaceAnswers(s) ==
  /\ req[s].op = "placeOrder" /\ req[s].pc = "tx"
  /\ req'[s].pc = "done" /\ req'[s].status # 500
\* C36: a placeOrder whose transaction runs when the cart it read has
\* been emptied (another placeOrder of the same customer has turned those
\* lines into an order meanwhile) creates no order and decrements no stock.
CartOrderedOnce ==
  [][\A s \in Slots :
       (PlaceAnswers(s) /\ ItemsOf(req[s].user) = {})
       => /\ req'[s].status # 201
          /\ UNCHANGED <<stock, orders>>]_vars

\* C37: every cart line deleted by a placeOrder that succeeds is a line of
\* the order it creates, with the same product, customization and quantity.
DeletedLinesOrdered ==
  [][\A s \in Slots :
       PlaceCommitted(s)
       => \A i \in cartItems \ cartItems' :
            \E k \in DOMAIN orders'[Len(orders')].items :
              LET l == orders'[Len(orders')].items[k]
              IN /\ l.productId = i.productId
                 /\ l.customDesign = i.customDesign
                 /\ l.quantity = i.quantity]_vars

\* C38: every addToCart that succeeds by merging into an existing
\* uncustomized line increases that line's quantity by the quantity it was
\* asked to add, whatever other addToCart is in flight: two that both
\* succeed increase it by q1 + q2.
MergeAddsQuantity ==
  [][\A s \in Slots :
       (req[s].op = "addToCart" /\ req[s].pc = "update"
          /\ req'[s].pc = "done" /\ req'[s].status = 201)
       => \A i \in cartItems :
            i.id = req[s].existing
            => \E j \in cartItems' :
                 j.id = i.id /\ j.quantity = i.quantity + req[s].quantity]_vars

CartOps == {"getCart", "addToCart", "updateCartItem", "removeFromCart", "clearCart"}
OpOfStep(s) == IF req[s].pc = "idle" THEN req'[s].op ELSE req[s].op
\* C39: no step of a cart operation (view, addItem, updateLine, removeLine,
\* clear), whether the operation succeeds or fails, changes any product's
\* stock or creates or changes any order.
CartOpsLeaveStockAndOrders ==
  [][\A s \in Slots :
       (Acting(s) /\ OpOfStep(s) \in CartOps) => UNCHANGED <<stock, orders>>]_vars
CartChangedBesideOrders ==
  \E s \in Slots, t \in Slots :
    /\ req[s].op = "removeFromCart" /\ req[s].pc = "done" /\ req[s].status = 200
    /\ req[t].op = "addToCart" /\ req[t].pc = "done" /\ req[t].status = 400
    /\ Len(orders) >= 1
    /\ \E p \in Products : stock[p] < InitStock

\* C40: an updateOrderStatus request whose role is not ADMIN is rejected with
\* 403 before the handler runs and changes no order; every change of an
\* order's status made by an updateOrderStatus request is made by an ADMIN.
StatusRouteAdminOnly ==
  [][\A s \in Slots :
       /\ (req[s].pc = "idle" /\ req'[s].op = "updateOrderStatus"
             /\ req'[s].user \notin Admins)
          => /\ req'[s].pc = "done" /\ req'[s].status = 403
             /\ UNCHANGED <<orders, stock>>
       /\ (req[s].op = "updateOrderStatus" /\ Acting(s) /\ orders' # orders)
          => req[s].user \in Admins]_vars
OwnerRefusedOnStatusRoute ==
  \E s \in Slots :
    /\ req[s].op = "updateOrderStatus" /\ req[s].pc = "done" /\ req[s].status = 403
    /\ req[s].user \notin Admins
    /\ req[s].orderId <= Len(orders)
    /\ orders[req[s].orderId].userId = req[s].user
    /\ req[s].newStatus = "CANCELLED"
    /\ orders[req[s].orderId].status = "PENDING"
====
